---- MODULE Spec2Model ----
(***************************************************************************)
(* Model of the git-mode versioning layer of Babel: one git-mode story    *)
(* whose versions are branches of the story repository, the editor event  *)
(* handlers of WorkspaceManager (open version, edit, will-save, save,     *)
(* close), the git helpers of git-utils.js they call, and the             *)
(* ActivityManager that accumulates the words written per day.            *)
(*                                                                         *)
(* The content of the repository is a set of text lines.  A tree, the     *)
(* index and the working tree are sets of lines; the staged diff is the   *)
(* unified diff between the tree at HEAD and the index, built as diff     *)
(* lines (file headers, hunk header, one '+' or '-' line per changed      *)
(* line) which the counting helpers classify by their leading characters  *)
(* exactly as the JavaScript does.                                        *)
(*                                                                         *)
(* Further parts, each with its own next-state relation over the same      *)
(* variables: the squash of today's commits (SquashSpec), commitStaged     *)
(* called directly (CommitSpec), the word counters applied to the text of  *)
(* a diff (CounterSpec), a file-mode story with its Manager calls and its   *)
(* migration to git (FileSpec), the editor handlers on a file-mode story   *)
(* (ModeSpec), the branches of a repository and deleteBranch (BranchSpec), *)
(* the commit message of the handlers (MessageSpec), the stories and      *)
(* versions collections of BabelDb (DbSpec), the handlers together with    *)
(* the send-to-Kindle command (KindleSpec), the file-mode session word     *)
(* count across restarts (SessionSpec) and the cleanup of orphan comments  *)
(* of a markdown document (CommentSpec).                                   *)
(***************************************************************************)
EXTENDS Integers, Sequences, FiniteSets, TLC

\* ---------------------------------------------------------------- bounds

\* number of lines changed in the open documents and not yet saved
MaxUnsaved == 1
\* number of editor events (open, edit, save, prompt answer, close) delivered
MaxEvents == 8
\* number of commits in the history of the branch the squash works on
MaxLog == 5
\* number of characters of the diff text given to the word counters
MaxDiffLen == 6
\* number of calls of commitStaged in a row
MaxCalls == 3
\* number of versions of the file-mode story
MaxVersions == 3
\* number of Manager calls and migrations made on the file-mode story
MaxFileOps == 4
\* number of commits in the repository whose branches are deleted
MaxTips == 3
\* number of words added, and of words deleted, in a staged diff whose
\* commit message is composed
MaxWords == 5
\* number of version records in the database of several stories
MaxDbVersions == 3

\* lines of a document with comments; calls of the orphan cleanup on it
MaxTextLines == 3
MaxCleanups == 2

\* ------------------------------------------------------------- constants

\* workspace.js:884  if (stagedSize >= 2000)
COMMIT_THRESHOLD_CHARS == 2000

\* manager: Version.REVISION / Version.TRANSLATION are excluded from activity
Versions == {"draft", "revision"}
ExcludedNames == {"revision", "translation"}

\* version.branch : the branch of a version is its normalized name
BranchOf(v) == v
Branches == {BranchOf(v) : v \in Versions}

\* The text lines a document may hold.
\*   big   : 1999 characters, 2 words
\*   one   : 1 character, 1 word
\*   blank : 2 characters of white space, no word
Lines == {"big", "one", "blank"}
LineChars == [l \in Lines |-> CASE l = "big" -> 1999 [] l = "one" -> 1 [] OTHER -> 2]
LineWords == [l \in Lines |-> CASE l = "big" -> 2 [] l = "one" -> 1 [] OTHER -> 0]
\* the first characters of the line (at most two are needed to classify a
\* diff line by its first three characters)
LineStart == [l \in Lines |-> CASE l = "big" -> <<"x", "x">>
                                [] l = "one" -> <<"x">>
                                [] OTHER -> <<" ", " ">>]

\* ------------------------------------------------------------ arithmetic

RECURSIVE SumOver(_, _)
SumOver(S, f) ==
  IF S = {} THEN 0
  ELSE LET x == CHOOSE y \in S : TRUE IN f[x] + SumOver(S \ {x}, f)

SymDiff(S, T) == (S \ T) \cup (T \ S)

\* ------------------------------------------------------- the staged diff

\* A line of a unified diff: its first characters (up to three), the number
\* of characters after the first one (line.slice(1).length) and the number
\* of white-space separated tokens of line.slice(1).trim().
DiffLine(id, start, chars, words) ==
  [id |-> id, start |-> start, chars |-> chars, words |-> words]

\* "+<line>" : a line of the index that is not in the tree at HEAD
AddedLine(l) == DiffLine(<<"+", l>>, <<"+">> \o LineStart[l], LineChars[l], LineWords[l])
\* "-<line>" : a line of the tree at HEAD that is not in the index
DeletedLine(l) == DiffLine(<<"-", l>>, <<"-">> \o LineStart[l], LineChars[l], LineWords[l])

\* "diff --git a/f b/f", "--- a/f", "+++ b/f", "@@ -1 +1 @@"
DiffHeaders ==
  { DiffLine(<<"h", "diff">>, <<"d", "i", "f">>, 17, 4),
    DiffLine(<<"h", "old">>, <<"-", "-", "-">>, 6, 2),
    DiffLine(<<"h", "new">>, <<"+", "+", "+">>, 6, 2),
    DiffLine(<<"h", "hunk">>, <<"@", "@", " ">>, 10, 3) }

\* git diff <from> <to> : empty when the two contents are equal
UnifiedDiff(from, to) ==
  IF from = to THEN {}
  ELSE DiffHeaders \cup {AddedLine(l) : l \in to \ from}
                   \cup {DeletedLine(l) : l \in from \ to}

\* git diff --cached
StagedDiff(r) == UnifiedDiff(r.tree[r.cur], r.index)

\* String.prototype.startsWith on a diff line
StartsWith(d, prefix) ==
  /\ Len(d.start) >= Len(prefix)
  /\ SubSeq(d.start, 1, Len(prefix)) = prefix

IsAddition(d) == StartsWith(d, <<"+">>) /\ ~StartsWith(d, <<"+", "+", "+">>)
IsDeletion(d) == StartsWith(d, <<"-">>) /\ ~StartsWith(d, <<"-", "-", "-">>)

\* the loop of getStagedChangesSize: characters of the added lines
CountAddedChars(diff) ==
  IF diff = {} THEN 0
  ELSE SumOver({d \in diff : IsAddition(d)}, [d \in diff |-> d.chars])

\* a size that takes every line of the diff for an addition
getStagedChangesSizeAllLines(r) ==
  SumOver(StagedDiff(r), [d \in StagedDiff(r) |-> d.chars])

\* git-utils.js getStagedChangesSize
getStagedChangesSize(r) == CountAddedChars(StagedDiff(r))

\* git-utils.js getStagedWordCount: words added, deleted and net
getStagedWordCount(r) ==
  LET diff == StagedDiff(r)
      wordsAdded == SumOver({d \in diff : IsAddition(d)}, [d \in diff |-> d.words])
      wordsDeleted ==
        SumOver({d \in diff : ~IsAddition(d) /\ IsDeletion(d)}, [d \in diff |-> d.words])
  IN  IF diff = {} THEN [wordsAdded |-> 0, wordsDeleted |-> 0, netWords |-> 0]
      ELSE [wordsAdded |-> wordsAdded, wordsDeleted |-> wordsDeleted,
            netWords |-> wordsAdded - wordsDeleted]

\* git-utils.js countWordsInDiff: net words of a diff
countWordsInDiff(diff) ==
  IF diff = {} THEN 0
  ELSE SumOver({d \in diff : IsAddition(d)}, [d \in diff |-> d.words])
       - SumOver({d \in diff : ~IsAddition(d) /\ IsDeletion(d)}, [d \in diff |-> d.words])

\* ------------------------------------------- the word counters on text

\* The diff as the text `git diff` prints: a sequence of characters.
NL == "\n"
Chars == {"+", "-", "a", " ", NL}
WhiteSpace == {" ", NL}

\* String.prototype.split('\n')
RECURSIVE SplitLines(_)
SplitLines(text) ==
  IF \A i \in 1..Len(text) : text[i] # NL THEN <<text>>
  ELSE LET k == CHOOSE i \in 1..Len(text) :
                  text[i] = NL /\ \A j \in 1..(i - 1) : text[j] # NL
       IN  <<SubSeq(text, 1, k - 1)>> \o SplitLines(SubSeq(text, k + 1, Len(text)))

\* String.prototype.startsWith
TextStartsWith(text, prefix) ==
  Len(text) >= Len(prefix) /\ SubSeq(text, 1, Len(prefix)) = prefix

\* String.prototype.slice(1)
Slice1(text) == IF text = <<>> THEN <<>> ELSE Tail(text)

\* String.prototype.trim
RECURSIVE TrimStart(_)
TrimStart(text) ==
  IF text # <<>> /\ Head(text) \in WhiteSpace THEN TrimStart(Tail(text)) ELSE text
RECURSIVE TrimEnd(_)
TrimEnd(text) ==
  IF text # <<>> /\ text[Len(text)] \in WhiteSpace
    THEN TrimEnd(SubSeq(text, 1, Len(text) - 1))
  ELSE text
Trim(text) == TrimEnd(TrimStart(text))

\* text.split(/\s+/): the pieces between maximal runs of white space
RECURSIVE SplitOnWhiteSpace(_, _)
SplitOnWhiteSpace(text, piece) ==
  IF text = <<>> THEN <<piece>>
  ELSE IF Head(text) \in WhiteSpace
    THEN <<piece>> \o SplitOnWhiteSpace(TrimStart(text), <<>>)
  ELSE SplitOnWhiteSpace(Tail(text), Append(piece, Head(text)))

\* text.split(/\s+/).filter(w => w.length > 0).length
WordsOf(text) == Len(SelectSeq(SplitOnWhiteSpace(text, <<>>), LAMBDA w : Len(w) > 0))

\* the words a line adds to a counter: line.slice(1).trim(), counted when
\* not empty
LineWordCount(line) ==
  LET text == Trim(Slice1(line))
  IN  IF Len(text) > 0 THEN WordsOf(text) ELSE 0

\* a test that takes every line starting with '+' for an addition
IsAddedTextLineAnyPlus(line) == TextStartsWith(line, <<"+">>)

\* line.startsWith('+') && !line.startsWith('+++')
IsAddedTextLine(line) ==
  TextStartsWith(line, <<"+">>) /\ ~TextStartsWith(line, <<"+", "+", "+">>)

\* else if: line.startsWith('-') && !line.startsWith('---')
IsDeletedTextLine(line) ==
  /\ ~IsAddedTextLine(line)
  /\ TextStartsWith(line, <<"-">>) /\ ~TextStartsWith(line, <<"-", "-", "-">>)

\* the loop `for (const line of lines)` of both counters, from line i on,
\* with the counters reached so far
RECURSIVE CountLoop(_, _, _, _)
CountLoop(lines, i, wordsAdded, wordsDeleted) ==
  IF i > Len(lines) THEN [wordsAdded |-> wordsAdded, wordsDeleted |-> wordsDeleted]
  ELSE IF IsAddedTextLine(lines[i])
    THEN CountLoop(lines, i + 1, wordsAdded + LineWordCount(lines[i]), wordsDeleted)
  ELSE IF IsDeletedTextLine(lines[i])
    THEN CountLoop(lines, i + 1, wordsAdded, wordsDeleted + LineWordCount(lines[i]))
  ELSE CountLoop(lines, i + 1, wordsAdded, wordsDeleted)

\* git-utils.js getStagedWordCount applied to the text of the staged diff
WordStatsOfDiff(diff) ==
  IF Trim(diff) = <<>> THEN [wordsAdded |-> 0, wordsDeleted |-> 0, netWords |-> 0]
  ELSE LET c == CountLoop(SplitLines(diff), 1, 0, 0)
       IN  [wordsAdded |-> c.wordsAdded, wordsDeleted |-> c.wordsDeleted,
            netWords |-> c.wordsAdded - c.wordsDeleted]

\* git-utils.js countWordsInDiff applied to the text of a diff
NetWordsOfDiff(diff) ==
  IF Trim(diff) = <<>> THEN 0
  ELSE LET c == CountLoop(SplitLines(diff), 1, 0, 0)
       IN  c.wordsAdded - c.wordsDeleted

\* --------------------------------------------------- repository commands

\* git add -A : the index becomes the working tree
stageChanges(r) == [r EXCEPT !.index = r.work]

\* a commit that is made even when nothing is staged
commitStagedAllowEmpty(r, toolOk) ==
  IF toolOk
    THEN [repo |-> [r EXCEPT !.tree[r.cur] = r.index, !.ncommits[r.cur] = @ + 1],
          ret |-> TRUE, created |-> TRUE]
  ELSE [repo |-> r, ret |-> FALSE, created |-> FALSE]

\* git-utils.js commitStaged.  toolOk is the outcome of `git commit`.
\* ret is the value returned, created tells whether a commit was made.
commitStaged(r, toolOk) ==
  IF r.index = r.tree[r.cur]
    THEN [repo |-> r, ret |-> TRUE, created |-> FALSE]
  ELSE IF toolOk
    THEN [repo |-> [r EXCEPT !.tree[r.cur] = r.index, !.ncommits[r.cur] = @ + 1],
          ret |-> TRUE, created |-> TRUE]
  ELSE [repo |-> r, ret |-> FALSE, created |-> FALSE]

\* the local changes (to - from) applied on top of base
Carry(base, from, to) == (base \ (from \ to)) \cup (to \ from)

\* git-utils.js checkoutBranch.  With a clean index and working tree the
\* checkout succeeds.  With local changes git keeps them on top of the target
\* branch when the changed files are the same in both branches, and refuses
\* otherwise; when the two trees differ either may be the case (carry).
checkoutBranch(r, b, carry) ==
  LET head == r.tree[r.cur]
      clean == r.index = head /\ r.work = head
  IN  IF clean
        THEN [r EXCEPT !.cur = b, !.index = r.tree[b], !.work = r.tree[b]]
      ELSE IF r.tree[b] = head \/ carry
        THEN [r EXCEPT !.cur = b,
                       !.index = Carry(r.tree[b], head, r.index),
                       !.work = Carry(r.tree[b], head, r.work)]
      ELSE r

\* the branch the repository was created on, whatever is checked out
getCurrentBranchStale(r) == "draft"

\* git-utils.js getCurrentBranch
getCurrentBranch(r) == r.cur

\* ------------------------------------------------------ activity manager

\* this.activityEntries[storyId] of the one story; present = key exists
NoEntry ==
  [present |-> FALSE, sessionWordCount |-> 0, initialWordCount |-> 0, gitBased |-> FALSE]

\* the entry of (story, today) in the activity collection of the database
\* hasInitial: the entry was stored with an initialWordCount
NoDbEntry ==
  [present |-> FALSE, wordCount |-> 0, hasInitial |-> FALSE, initialWordCount |-> 0]

\* ActivityManager.initDocument(versionObj)
initDocument(e, wordCount) ==
  IF ~e.present
    THEN [present |-> TRUE, sessionWordCount |-> 0,
          initialWordCount |-> wordCount, gitBased |-> FALSE]
  ELSE IF ~e.gitBased
    THEN [e EXCEPT !.initialWordCount = wordCount - e.sessionWordCount]
  ELSE e

\* ActivityManager.trackGitWords(storyId, netWords): the entry it leaves
trackGitWords(e, netWords) ==
  IF ~e.present
    THEN [present |-> TRUE, sessionWordCount |-> netWords,
          initialWordCount |-> 0, gitBased |-> TRUE]
  ELSE [e EXCEPT !.sessionWordCount = @ + netWords, !.gitBased = TRUE]

\* BabelDb.insertActivityEntry: the entry of the day is replaced
insertActivityEntry(wordCount) ==
  [present |-> TRUE, wordCount |-> wordCount, hasInitial |-> FALSE,
   initialWordCount |-> 0]

\* an update that stores the difference as it is
updateActivityUnclamped(e, wordCount) ==
  IF ~e.present THEN initDocument(e, wordCount)
  ELSE IF e.gitBased THEN e
  ELSE [e EXCEPT !.sessionWordCount = wordCount - e.initialWordCount]

\* ActivityManager.updateActivity(versionObj)
updateActivity(e, wordCount) ==
  IF ~e.present THEN initDocument(e, wordCount)
  ELSE IF e.gitBased THEN e
  ELSE IF wordCount - e.initialWordCount < 0
    THEN [e EXCEPT !.sessionWordCount = 0]
  ELSE [e EXCEPT !.sessionWordCount = wordCount - e.initialWordCount]

\* ActivityManager.saveStoryActivity(versionObj): the database entry it leaves
saveStoryActivity(e, db) ==
  IF ~e.present \/ e.gitBased THEN db
  ELSE [insertActivityEntry(e.sessionWordCount) EXCEPT
          !.hasInitial = TRUE, !.initialWordCount = e.initialWordCount]

\* BabelDb.getActivityForDate(today), for the one story: the entry that was
\* inserted last for the story and the day, none when nothing was inserted
getActivityForDate(db) == db

\* ActivityManager.initSession: the entry of the story a new ActivityManager
\* starts with
initSession(db) ==
  LET e == getActivityForDate(db)
  IN  IF ~e.present THEN NoEntry
      ELSE IF e.hasInitial
        THEN [present |-> TRUE, sessionWordCount |-> e.wordCount,
              initialWordCount |-> e.initialWordCount, gitBased |-> FALSE]
      ELSE [present |-> TRUE, sessionWordCount |-> e.wordCount,
            initialWordCount |-> 0, gitBased |-> TRUE]

\* ------------------------------------------------------------------ state

VARIABLES
  repo,             \* the story repository: cur, tree, ncommits, index, work
  openDocs,         \* versions whose document is open (visibleVersions)
  unsaved,          \* per open document, the lines changed and not yet saved
  activityEntries,  \* ActivityManager.activityEntries[story]
  dbActivity,       \* activity entry stored for (story, today)
  pending,          \* the save waiting at the branch-mismatch prompt
  events,           \* number of editor events handled so far
  sumNet,           \* sum of the net words of the commits created today
  ev                \* what the handler of the last event did

\* the history the squash works on: the repository of a story with one
\* branch checked out
VARIABLES
  gitLog,           \* commits reachable from HEAD, oldest first: tree, today
  gitIndex,         \* the index of that repository
  gitWork,          \* its working tree
  squashPrompt,     \* the squash handler waiting at its modal prompt
  message,          \* the message the squash handler showed last
  failed,           \* the git command that threw in the last squash
  entryCount        \* commits of today when squashTodayCommits was last
                    \* entered, -1 before

\* commitStaged called directly on the repository of the squash scenarios
VARIABLES
  lastCall          \* the calls of commitStaged in a row: how many, what the
                    \* last one returned and whether it created a commit

\* a file-mode story (Manager and BabelDb) and its migration to git
VARIABLES
  versions,         \* version records of the story: id, name, branch
  storyVersions,    \* story.versions: the ids of its versions
  versioningMode,   \* story.versioningMode
  files,            \* names (without .md) of the files of the story directory
  written,          \* the files that hold text
  storyRepo,        \* the git repository of the directory: isRepo, branches, head
  thrown,           \* the call made last and the error it threw
  fileOps           \* number of calls made on the story so far

fileVars ==
  <<versions, storyVersions, versioningMode, files, written, storyRepo, thrown,
    fileOps>>

\* a repository and its branches (git-utils.js deleteBranch)
VARIABLES
  gitBranches,      \* tips: per branch the commits it contains; current: HEAD
  deleted           \* the last call of deleteBranch and what it returned

branchVars == <<gitBranches, deleted>>

\* the commit message the handlers compose from the staged word stats
VARIABLES
  wordStats,        \* what getStagedWordCount returned
  commitMessage     \* the handler (trigger) and the message it passed to
                    \* commitStaged

messageVars == <<wordStats, commitMessage>>

\* the stories and versions collections of BabelDb
VARIABLES
  dbStories,        \* per stored story id, story.versions
  dbVersions,       \* the version records: id, storyId
  dbThrown          \* the call made last and the error it threw

dbVars == <<dbStories, dbVersions, dbThrown>>

\* a markdown document with inline comments
VARIABLES
  docText,          \* the lines of the document, each a sequence of tokens
  cleanups          \* number of runs of the orphan cleanup on it

commentVars == <<docText, cleanups>>

extraVars == <<commentVars>>

libVars == <<branchVars, messageVars, dbVars, extraVars>>

\* the word counters applied to a diff text
VARIABLES
  diffText,         \* the text of the diff
  counted           \* what the counter returned for it

editorVars ==
  <<repo, openDocs, unsaved, activityEntries, dbActivity, pending, events, sumNet, ev>>
squashVars == <<gitLog, gitIndex, gitWork, squashPrompt, message, failed, entryCount>>

counterVars == <<diffText, counted>>

vars == <<editorVars, squashVars, counterVars, lastCall, fileVars, libVars>>

NoPrompt == [active |-> FALSE, v |-> "draft", branch |-> "draft"]

\* one more editor event is delivered
Deliver == events < MaxEvents /\ events' = events + 1

\* WorkspaceManager.getDocumentWordCount of the document of version v
DocContent(r, u, v) == SymDiff(r.work, u[v])
getDocumentWordCount(r, u, v) == SumOver(DocContent(r, u, v), LineWords)

\*   op, v      the handler and the version of its document
\*   cur0       the branch checked out when the handler started
\*   dirty0     something was staged when the handler started
\*   mismatch   cur0 (for a confirmed save: the branch of the prompt) is not
\*              the branch of v;  confirmed: the user confirmed the commit
\*   size, net  stagedSize and wordStats.netWords computed by the handler
\*   called     commitStaged was called;  ret: what it returned
\*   created    a commit was created
\*   tracks     number of calls of trackGitWords;  trackArg: its netWords
\*   checkout   checkoutBranch was called
\*   reported   an error message was shown to the user
NoEv ==
  [op |-> "none", v |-> "draft", cur0 |-> "draft", dirty0 |-> FALSE,
   mismatch |-> FALSE, confirmed |-> FALSE, size |-> 0, net |-> 0,
   called |-> FALSE, ret |-> TRUE, created |-> FALSE, tracks |-> 0,
   trackArg |-> 0, checkout |-> FALSE, reported |-> FALSE]

\* the comparison with its sense inverted
BranchMismatchInverted(r, v) == getCurrentBranch(r) = BranchOf(v)

\* onDidSaveTextDocument: currentBranch !== versionBranch, both read at the
\* time of the save
BranchMismatch(r, v) == getCurrentBranch(r) # BranchOf(v)

\* the record of a handler that starts on repository r for version v
StartEv(op, v, r) ==
  [NoEv EXCEPT !.op = op, !.v = v, !.cur0 = r.cur,
               !.dirty0 = (r.index # r.tree[r.cur]),
               !.mismatch = (r.cur # BranchOf(v))]

\* state after createNewStory / createNewVersion: both branches at the
\* initial commit, the first version's branch checked out, nothing open
EditorInit ==
  /\ repo = [cur |-> "draft", tree |-> [b \in Branches |-> {}],
             ncommits |-> [b \in Branches |-> 1], index |-> {}, work |-> {}]
  /\ openDocs = {}
  /\ unsaved = [v \in Versions |-> {}]
  /\ activityEntries = NoEntry
  /\ dbActivity = NoDbEntry
  /\ pending = NoPrompt
  /\ events = 0
  /\ sumNet = 0
  /\ ev = NoEv

\* ------------------------------------------------------ today's commits

\* a commit of the history: its tree and whether its date is after the last
\* local midnight
Commit(tree, today) == [tree |-> tree, today |-> today]

\* the contents the story file takes in the squash scenarios
SquashTrees == SUBSET {"one", "big"}

HeadTree(log) == log[Len(log)].tree

\* git rev-list --since=<midnight> HEAD
TodayCommits(log) == {i \in 1..Len(log) : log[i].today}

\* git-utils.js getTodayCommitCount; ok is the outcome of git rev-list, the
\* function returns 0 when it fails
getTodayCommitCount(log, ok) == IF ok THEN Cardinality(TodayCommits(log)) ELSE 0

\* git rev-list --reverse --since=<midnight> HEAD | head -n 1
FirstTodayCommit(log) ==
  CHOOSE i \in TodayCommits(log) : \A j \in TodayCommits(log) : i <= j

\* the git commands of squashTodayCommits that may fail
SquashSteps == {"none", "count", "first", "parent", "log", "reset", "commit"}

\* the steps of squashTodayCommits after the commit count.  failAt is the
\* command the tool fails at; git rev-parse <first>^ also fails when <first>
\* is the root commit and git commit also fails when the index equals the
\* tree of the base.  log: the history it leaves, ret: the value returned,
\* failed: the command that threw.
SquashFrom(log, index, failAt) ==
  IF failAt = "first" \/ TodayCommits(log) = {}
    THEN [log |-> log, ret |-> FALSE, failed |-> "first"]
  ELSE LET first == FirstTodayCommit(log)
           base == SubSeq(log, 1, first - 1)
       IN  IF failAt = "parent" \/ first = 1
             THEN [log |-> log, ret |-> FALSE, failed |-> "parent"]
           ELSE IF failAt \in {"log", "reset"}
             THEN [log |-> log, ret |-> FALSE, failed |-> failAt]
           ELSE IF failAt = "commit" \/ index = HeadTree(base)
             THEN [log |-> base, ret |-> FALSE, failed |-> "commit"]
           ELSE [log |-> Append(base, Commit(index, TRUE)), ret |-> TRUE,
                 failed |-> "none"]

\* a squash that does not look at the number of commits
squashTodayCommitsAnyCount(log, index, failAt) == SquashFrom(log, index, failAt)

\* git-utils.js squashTodayCommits
squashTodayCommits(log, index, failAt) ==
  IF getTodayCommitCount(log, failAt # "count") <= 1
    THEN [log |-> log, ret |-> TRUE,
          failed |-> IF failAt = "count" THEN "count" ELSE "none"]
  ELSE SquashFrom(log, index, failAt)

\* the lines `git diff <empty tree> HEAD` prints for .gitignore, the file
\* initGitRepo commits: "+# Babel story repository" and "+*.tmp"
GitignoreDiff ==
  { DiffLine(<<"+", "ignore1">>, <<"+", "#", " ">>, 24, 4),
    DiffLine(<<"+", "ignore2">>, <<"+", "*", ".">>, 5, 1) }

\* git diff 4b825dc... HEAD: every file of the commit is new
DiffWithEmptyTree(tree) == UnifiedDiff({}, tree) \cup DiffHeaders \cup GitignoreDiff

\* git-utils.js getTodayNetWords on the history, with the working tree work
getTodayNetWords(log, work) ==
  LET commitCount == getTodayCommitCount(log, TRUE)
      uncommittedDiff == UnifiedDiff(HeadTree(log), work)
  IN  IF commitCount = 0 THEN countWordsInDiff(uncommittedDiff)
      ELSE LET firstTodayCommit == FirstTodayCommit(log)
               diff == IF firstTodayCommit = 1 THEN DiffWithEmptyTree(HeadTree(log))
                       ELSE UnifiedDiff(log[firstTodayCommit - 1].tree, HeadTree(log))
           IN  countWordsInDiff(diff) + countWordsInDiff(uncommittedDiff)

NoSquashPrompt == [active |-> FALSE, kind |-> "command", count |-> 0]

\* a story created today: initGitRepo made the initial commit
SquashInit ==
  /\ gitLog = <<Commit({}, TRUE)>>
  /\ gitIndex = {}
  /\ gitWork = {}
  /\ squashPrompt = NoSquashPrompt
  /\ message = "none"
  /\ failed = "none"
  /\ entryCount = -1

\* the diff texts of at most MaxDiffLen characters
RECURSIVE Texts(_)
Texts(n) ==
  IF n = 0 THEN {<<>>}
  ELSE Texts(n - 1) \cup {Append(t, c) : t \in {u \in Texts(n - 1) : Len(u) = n - 1}, c \in Chars}

NotCounted ==
  [fn |-> "none", wordsAdded |-> 0, wordsDeleted |-> 0, netWords |-> 0]

NoCall == [row |-> 0, ret |-> TRUE, created |-> FALSE]

\* ----------------------------------------------------- the file-mode story

\* names a user gives to versions (showInputBox), as characters
VersionNames ==
  { <<"d", "r", "a", "f", "t">>, <<"D", "r", "a", "f", "t">>,
    <<"r", "e", "v">>, <<"r", "e", "v", " ", "2">>,
    <<"w", "h", "y", "?">>, <<"1", "/", "2">> }

Draft == <<"d", "r", "a", "f", "t">>

\* String.prototype.toLowerCase on the letters in use
ToLowerCase(c) == IF c = "D" THEN "d" ELSE c

\* utils.normalizeFilename: filename.toLowerCase().replace(/\s/g, '_')
normalizeFilename(name) ==
  [i \in 1..Len(name) |-> IF ToLowerCase(name[i]) = " " THEN "_" ELSE ToLowerCase(name[i])]

\* the directory of path.join(workspace, storyId, name + '.md') exists: the
\* story directory has no subdirectory
ParentDirExists(name) == \A i \in 2..Len(name) : name[i] # "/"

\* fs.existsSync(versionPath)
existsSync(fs, name) == ParentDirExists(name) /\ name \in fs

\* git accepts the name as a branch name on the command line
ValidBranchName(name) ==
  /\ name # <<>>
  /\ \A i \in 1..Len(name) : name[i] \notin {"?", " "}
  /\ name[1] # "/" /\ name[Len(name)] # "/"

\* BabelDb.insertVersion: the record gets an id no other record has (lodash-id),
\* the story its version
insertVersion(vs, sv, name) ==
  LET ids == {vs[k].id : k \in 1..Len(vs)}
      id == CHOOSE n \in 1..(Len(vs) + 1) :
              n \notin ids /\ \A m \in 1..(n - 1) : m \in ids
  IN  [versions |-> Append(vs, [id |-> id, name |-> name, branch |-> <<>>]),
       storyVersions |-> Append(sv, id)]

NoRepo == [isRepo |-> FALSE, branches |-> {}, head |-> <<>>, trees |-> <<>>]

\* createNewStory: the story has its first version 'draft' and draft.md
FileInit ==
  /\ versions = <<[id |-> 1, name |-> Draft, branch |-> <<>>]>>
  /\ storyVersions = <<1>>
  /\ versioningMode = "file"
  /\ files = {Draft}
  /\ written = {}
  /\ storyRepo = NoRepo
  /\ thrown = [op |-> "createNewStory", name |-> Draft, error |-> "none"]
  /\ fileOps = 0

\* ------------------------------------------------ branches of a repository

BranchNames == {"draft", "notes", "revision"}

\* the order in which `git branch` lists them
BranchOrder == <<"draft", "notes", "revision">>

\* git-utils.js getAllBranches(directory)
getAllBranches(r) == SelectSeq(BranchOrder, LAMBDA b : b \in DOMAIN r.tips)

\* `git branch -d` refuses a branch that is checked out, one that does not
\* exist and, without force, one with commits that HEAD does not contain
BranchDeletable(r, branchName, force) ==
  /\ branchName \in DOMAIN r.tips
  /\ branchName # r.current
  /\ force \/ r.tips[branchName] \subseteq r.tips[r.current]

\* deleteBranch that deletes the branch whether or not another one is left
deleteBranchUnguarded(r, branchName, force, checkoutOk) ==
  [repo |-> [r EXCEPT !.tips = [b \in DOMAIN r.tips \ {branchName} |-> r.tips[b]]],
   ret |-> TRUE]

\* git-utils.js deleteBranch(directory, branchName, force); checkoutOk: the
\* `git checkout` of the other branch succeeds
deleteBranch(r, branchName, force, checkoutOk) ==
  LET currentBranch == r.current
      otherBranches == SelectSeq(getAllBranches(r), LAMBDA b : b # branchName)
      onlyBranch == currentBranch = branchName /\ Len(otherBranches) = 0
      r1 == IF currentBranch = branchName /\ ~onlyBranch /\ checkoutOk
              THEN [r EXCEPT !.current = otherBranches[1]]
            ELSE r
  IN  IF onlyBranch THEN [repo |-> r, ret |-> FALSE]
      ELSE IF BranchDeletable(r1, branchName, force)
             THEN [repo |-> [r1 EXCEPT !.tips = [b \in DOMAIN r1.tips \ {branchName}
                                                   |-> r1.tips[b]]],
                   ret |-> TRUE]
           ELSE [repo |-> r1, ret |-> FALSE]

NoDelete == [name |-> "", wasCurrent |-> FALSE, ret |-> FALSE]

\* the repository initGitRepo leaves: one branch with the initial commit
BranchInit ==
  /\ gitBranches = [tips |-> [b \in {"draft"} |-> {1}], current |-> "draft"]
  /\ deleted = NoDelete

\* ------------------------------------------------------- commit messages

\* the generic message of each handler that commits
Triggers == {"Auto-save", "Auto-save on close", "Auto-save on version switch"}

\* getStagedWordCount: { wordsAdded, wordsDeleted, netWords }
StatsOf(a, d) == [wordsAdded |-> a, wordsDeleted |-> d, netWords |-> a - d]

\* `${netWords >= 0 ? '+' : ''}${netWords}` without the sign of a positive net
SignedNetUnsigned(netWords) == ToString(netWords)

\* `${wordStats.netWords >= 0 ? '+' : ''}${wordStats.netWords}`
SignedNet(netWords) == (IF netWords >= 0 THEN "+" ELSE "") \o ToString(netWords)

\* the commitMessage of onDidSaveTextDocument, onDidCloseDocument and
\* openVersionCommand; trigger is the literal each of them starts from
composeCommitMessage(trigger, ws) ==
  IF ws.netWords # 0
    THEN IF ws.wordsDeleted = 0
           THEN trigger \o ": +" \o ToString(ws.wordsAdded) \o " words"
         ELSE IF ws.wordsAdded = 0
           THEN trigger \o ": -" \o ToString(ws.wordsDeleted) \o " words"
         ELSE trigger \o ": +" \o ToString(ws.wordsAdded) \o "/-"
                \o ToString(ws.wordsDeleted) \o " words (net: "
                \o SignedNet(ws.netWords) \o ")"
  ELSE trigger

NoMessage == [trigger |-> "", text |-> ""]

MessageInit ==
  /\ wordStats = StatsOf(0, 0)
  /\ commitMessage = NoMessage

\* --------------------------------------------------------------- BabelDb

\* the sequence without its i-th element (Array.prototype.splice(i, 1))
RemoveAt(seq, i) == SubSeq(seq, 1, i - 1) \o SubSeq(seq, i + 1, Len(seq))

StoryIds == {"A", "B"}

\* lodash-id: an id no record of the collection has
NewId(records) ==
  CHOOSE n \in 1..(Cardinality(records) + 1) : \A v \in records : v.id # n

\* BabelDb.getStoryById(storyId) finds the story
StoryFound(stories, storyId) == storyId \in DOMAIN stories

\* insertVersion that looks for the story after it has inserted the record
dbInsertVersionThenCheck(stories, records, storyId, versionObj) ==
  LET versionInsertedObj == [id |-> NewId(records), storyId |-> versionObj.storyId]
  IN  IF ~StoryFound(stories, storyId)
        THEN [stories |-> stories, versions |-> records \cup {versionInsertedObj},
              error |-> "StoryNotFound"]
      ELSE [stories |-> [stories EXCEPT ![storyId] = Append(@, versionInsertedObj.id)],
            versions |-> records \cup {versionInsertedObj},
            error |-> "none"]

\* BabelDb.insertVersion(storyId, versionObj)
dbInsertVersion(stories, records, storyId, versionObj) ==
  IF ~StoryFound(stories, storyId)
    THEN [stories |-> stories, versions |-> records, error |-> "StoryNotFound"]
  ELSE LET versionInsertedObj == [id |-> NewId(records), storyId |-> versionObj.storyId]
       IN  [stories |-> [stories EXCEPT ![storyId] = Append(@, versionInsertedObj.id)],
            versions |-> records \cup {versionInsertedObj},
            error |-> "none"]

\* BabelDb.deleteVersion(storyId, versionId)
dbDeleteVersion(stories, records, storyId, versionId) ==
  IF ~StoryFound(stories, storyId)
    THEN [stories |-> stories, versions |-> records, error |-> "StoryNotFound"]
  ELSE LET versionIds == stories[storyId]
           index == {k \in 1..Len(versionIds) : versionIds[k] = versionId}
           first == CHOOSE k \in index : \A m \in index : k <= m
       IN  [stories |-> [stories EXCEPT ![storyId] =
                           IF index = {} THEN @ ELSE RemoveAt(@, first)],
            versions |-> {v \in records : v.id # versionId},
            error |-> "none"]

\* deleteStory that removes the story record only
dbDeleteStoryRecordOnly(stories, records, storyId) ==
  [stories |-> [x \in DOMAIN stories \ {storyId} |-> stories[x]],
   versions |-> records, error |-> "none"]

\* BabelDb.deleteStory(storyId)
dbDeleteStory(stories, records, storyId) ==
  [stories |-> [x \in DOMAIN stories \ {storyId} |-> stories[x]],
   versions |-> {v \in records : v.storyId # storyId},
   error |-> "none"]

\* the database after the constructor: db.defaults({stories: [], versions: []})
DbInit ==
  /\ dbStories = <<>>
  /\ dbVersions = {}
  /\ dbThrown = [op |-> "none", storyId |-> "", error |-> "none"]

\* ------------------------------------------------------ inline comments

\* The tokens of a line: a comment tag, a word, the '>>' prefix, a blank.
TagTokens == {"[a]", "[b]"}

\* The lines a document may hold: body lines with and without an inline
\* tag, comment definitions ('[a]comment', one of them indented), a '>>'
\* reference line, an empty line.
CommentLines ==
  { <<"w">>, <<"w", "[a]">>, <<"w", "[b]", "w">>, <<"[a]", "w">>, <<"[b]", "w">>,
    <<" ", "[a]", "w">>, <<">>", "w">>, <<>> }

RECURSIVE CommentTexts(_)
CommentTexts(n) ==
  IF n = 1 THEN {<<l>> : l \in CommentLines}
  ELSE CommentTexts(n - 1)
         \cup {Append(t, l) : t \in {u \in CommentTexts(n - 1) : Len(u) = n - 1},
                               l \in CommentLines}

\* parseComments: lines[i].trim().match(/^\[([a-z]+)\](.*)$/)
IsDefinition(line) == Trim(line) # <<>> /\ Head(Trim(line)) \in TagTokens

\* CommentManager.parseComments
\*   inlineRefs : text.matchAll(/\[([a-z]+)\]/g), on the whole text
\*   comments   : the keys of the comments map
parseComments(text) ==
  [inlineRefs |->
     {tok \in TagTokens :
        \E i \in 1..Len(text) : \E j \in 1..Len(text[i]) : text[i][j] = tok},
   comments |->
     {Head(Trim(text[i])) : i \in {k \in 1..Len(text) : IsDefinition(text[k])}}]

\* CommentManager.findOrphanTags
findOrphanTags(text) ==
  LET parsed == parseComments(text)
  IN  {commentId \in parsed.comments : commentId \notin parsed.inlineRefs}

\* removeOrphanTags: the loop over the lines from line i on;
\* commentMatch is line.match(/^\[([a-z]+)\]/), on the line as it is
RECURSIVE RemoveLoop(_, _, _, _)
RemoveLoop(lines, i, skipUntilNextComment, orphans) ==
  IF i > Len(lines) THEN <<>>
  ELSE LET line == lines[i]
           commentMatch == line # <<>> /\ Head(line) \in TagTokens
       IN  IF commentMatch
             THEN IF Head(line) \in orphans
                    THEN RemoveLoop(lines, i + 1, TRUE, orphans)
                  ELSE <<line>> \o RemoveLoop(lines, i + 1, FALSE, orphans)
           ELSE IF ~skipUntilNextComment
             THEN <<line>> \o RemoveLoop(lines, i + 1, skipUntilNextComment, orphans)
           ELSE RemoveLoop(lines, i + 1, skipUntilNextComment, orphans)

\* CommentManager.removeOrphanTags
removeOrphanTags(text) ==
  LET orphans == findOrphanTags(text)
  IN  IF orphans = {} THEN text ELSE RemoveLoop(text, 1, FALSE, orphans)

\* CommentProvider.cleanupOrphanTags: the document after the edits it
\* returns are applied
cleanupOrphanTags(text) ==
  IF findOrphanTags(text) = {} THEN text ELSE removeOrphanTags(text)

\* an empty document, not saved yet
ExtraInit == docText = <<<<>>>> /\ cleanups = 0

LibInit == BranchInit /\ MessageInit /\ DbInit /\ ExtraInit

Init ==
  /\ EditorInit /\ SquashInit
  /\ diffText = <<>> /\ counted = NotCounted
  /\ lastCall = NoCall
  /\ FileInit /\ LibInit

\* --------------------------------------------------------------- handlers

\* the entries and the database entry after the handler tracked (or not)
\* netWords with trackGitWords, which also saves the entry
Tracked(tracked, netWords) ==
  LET e == IF tracked THEN trackGitWords(activityEntries, netWords) ELSE activityEntries
  IN  [entries |-> e,
       db |-> IF tracked THEN insertActivityEntry(e.sessionWordCount) ELSE dbActivity]

\* the test of the close and switch handlers before they commit
HasWordChanges(ws) == ws.netWords # 0 \/ ws.wordsAdded > 0 \/ ws.wordsDeleted > 0

\* workspace.js openVersionCommand, followed by onDidChangeEditor of the
\* document it shows
openVersionCommand(v) ==
  /\ Deliver
  /\ \E toolOk \in BOOLEAN, carry \in BOOLEAN :
       LET switch == getCurrentBranch(repo) # BranchOf(v)
           ws == getStagedWordCount(repo)
           flush == switch /\ HasWordChanges(ws)
           c == IF flush THEN commitStaged(repo, toolOk)
                ELSE [repo |-> repo, ret |-> TRUE, created |-> FALSE]
           r2 == IF switch THEN checkoutBranch(c.repo, BranchOf(v), carry) ELSE repo
           t == Tracked(flush, ws.netWords)
       IN  /\ repo' = r2
           /\ activityEntries' = initDocument(t.entries, getDocumentWordCount(r2, unsaved, v))
           /\ dbActivity' = t.db
           /\ sumNet' = IF c.created THEN sumNet + ws.netWords ELSE sumNet
           /\ ev' = [StartEv("open", v, repo) EXCEPT
                       !.net = ws.netWords, !.called = flush, !.ret = c.ret,
                       !.created = c.created, !.tracks = IF flush THEN 1 ELSE 0,
                       !.trackArg = IF flush THEN ws.netWords ELSE 0,
                       !.checkout = switch]
  /\ openDocs' = openDocs \cup {v}
  /\ UNCHANGED <<unsaved, pending>>

NumUnsaved == SumOver(Versions, [w \in Versions |-> Cardinality(unsaved[w])])

\* the user types or removes line l in the open document of v:
\* workspace.js onDidDocumentChange
onDidDocumentChange(v, l) ==
  /\ v \in openDocs
  /\ Deliver
  /\ l \in unsaved[v] \/ NumUnsaved < MaxUnsaved
  /\ unsaved' = [unsaved EXCEPT ![v] = SymDiff(@, {l})]
  /\ activityEntries' =
       IF v \notin ExcludedNames
         THEN updateActivity(activityEntries, getDocumentWordCount(repo, unsaved', v))
       ELSE activityEntries
  /\ ev' = [NoEv EXCEPT !.op = "edit", !.v = v, !.cur0 = repo.cur,
                         !.dirty0 = (repo.index # repo.tree[repo.cur])]
  /\ UNCHANGED <<repo, openDocs, dbActivity, pending, sumNet>>

\* a threshold that must be exceeded
ThresholdExceeded(stagedSize) == stagedSize > COMMIT_THRESHOLD_CHARS

\* onDidSaveTextDocument: if (stagedSize >= 2000)
ThresholdMet(stagedSize) == stagedSize >= COMMIT_THRESHOLD_CHARS

\* a size measured on what this save added to the index only
SizeOfThisSave(r) == CountAddedChars(UnifiedDiff(r.index, r.work))

\* onDidSaveTextDocument: stageChanges, then getStagedChangesSize
SizeAfterStaging(r) == getStagedChangesSize(stageChanges(r))

\* workspace.js onDidSaveTextDocument from "Always stage changes" on
saveTail(r, v, toolOk) ==
  LET r1 == stageChanges(r)
      ws == getStagedWordCount(r1)
      stagedSize == SizeAfterStaging(r)
      commit == ThresholdMet(stagedSize)
      c == IF commit THEN commitStaged(r1, toolOk)
           ELSE [repo |-> r1, ret |-> TRUE, created |-> FALSE]
      tracked == commit /\ v \notin ExcludedNames
  IN  [repo |-> c.repo, size |-> stagedSize, net |-> ws.netWords,
       called |-> commit, ret |-> c.ret, created |-> c.created, tracked |-> tracked]

EvOfSave(op, v, r, s) ==
  [StartEv(op, v, r) EXCEPT
     !.size = s.size, !.net = s.net, !.called = s.called,
     !.ret = s.ret, !.created = s.created, !.tracks = IF s.tracked THEN 1 ELSE 0,
     !.trackArg = IF s.tracked THEN s.net ELSE 0]

\* the user saves the document of v: workspace.js onWillSaveDocument, the
\* file is written, then onDidSaveTextDocument up to its prompt or its end
onDidSaveTextDocument(v) ==
  /\ v \in openDocs
  /\ Deliver
  /\ pending.active => ~BranchMismatch(repo, v)
  /\ \E toolOk \in BOOLEAN :
       LET db1 == IF v \notin ExcludedNames
                    THEN saveStoryActivity(activityEntries, dbActivity)
                  ELSE dbActivity
           r1 == [repo EXCEPT !.work = DocContent(repo, unsaved, v)]
           currentBranch == getCurrentBranch(r1)
           s == saveTail(r1, v, toolOk)
       IN  IF BranchMismatch(r1, v)
             THEN /\ pending' = [active |-> TRUE, v |-> v, branch |-> currentBranch]
                  /\ repo' = r1
                  /\ dbActivity' = db1
                  /\ ev' = StartEv("savePrompt", v, r1)
                  /\ UNCHANGED <<activityEntries, sumNet>>
           ELSE   /\ repo' = s.repo
                  /\ activityEntries' =
                       IF s.tracked THEN trackGitWords(activityEntries, s.net)
                       ELSE activityEntries
                  /\ dbActivity' =
                       IF s.tracked
                         THEN insertActivityEntry(activityEntries'.sessionWordCount)
                       ELSE db1
                  /\ sumNet' = IF s.created THEN sumNet + s.net ELSE sumNet
                  /\ ev' = EvOfSave("save", v, r1, s)
                  /\ UNCHANGED pending
  /\ unsaved' = [unsaved EXCEPT ![v] = {}]
  /\ UNCHANGED openDocs

\* the user answers 'Commit to <branch>' at the prompt of a mismatched save
saveConfirm ==
  /\ pending.active
  /\ Deliver
  /\ \E toolOk \in BOOLEAN :
       LET s == saveTail(repo, pending.v, toolOk)
           t == Tracked(s.tracked, s.net)
       IN  /\ repo' = s.repo
           /\ activityEntries' = t.entries
           /\ dbActivity' = t.db
           /\ sumNet' = IF s.created THEN sumNet + s.net ELSE sumNet
           /\ ev' = [EvOfSave("saveConfirm", pending.v, repo, s) EXCEPT
                       !.mismatch = TRUE, !.confirmed = TRUE]
  /\ pending' = NoPrompt
  /\ UNCHANGED <<openDocs, unsaved>>

\* the user answers 'Cancel' (or dismisses the prompt): return false
saveCancel ==
  /\ pending.active
  /\ Deliver
  /\ pending' = NoPrompt
  /\ ev' = [StartEv("saveCancel", pending.v, repo) EXCEPT !.mismatch = TRUE]
  /\ UNCHANGED <<repo, openDocs, unsaved, activityEntries, dbActivity, sumNet>>

\* the document of v is closed: workspace.js onDidCloseDocument
onDidCloseDocument(v) ==
  /\ v \in openDocs
  /\ Deliver
  /\ \E toolOk \in BOOLEAN :
       LET ws == getStagedWordCount(repo)
           flush == HasWordChanges(ws)
           c == IF flush THEN commitStaged(repo, toolOk)
                ELSE [repo |-> repo, ret |-> TRUE, created |-> FALSE]
           tracked == flush /\ v \notin ExcludedNames
           t == Tracked(tracked, ws.netWords)
       IN  /\ repo' = c.repo
           /\ activityEntries' = t.entries
           /\ dbActivity' = t.db
           /\ sumNet' = IF c.created THEN sumNet + ws.netWords ELSE sumNet
           /\ ev' = [StartEv("close", v, repo) EXCEPT
                       !.net = ws.netWords, !.called = flush, !.ret = c.ret,
                       !.created = c.created, !.tracks = IF tracked THEN 1 ELSE 0,
                       !.trackArg = IF tracked THEN ws.netWords ELSE 0]
  /\ openDocs' = openDocs \ {v}
  /\ unsaved' = [unsaved EXCEPT ![v] = {}]
  /\ UNCHANGED pending

\* the editor's "document saved" event reaches onDidSaveTextDocument; the
\* listeners registered in extension.js (55-59) cover change, close and
\* will-save only, so this delivery follows the documented save path
documentSaved(v) == onDidSaveTextDocument(v)

Next ==
  \/ (\E v \in Versions : openVersionCommand(v)) /\ UNCHANGED <<squashVars, counterVars, lastCall, fileVars, libVars>>
  \/ (\E v \in Versions, l \in Lines : onDidDocumentChange(v, l)) /\ UNCHANGED <<squashVars, counterVars, lastCall, fileVars, libVars>>
  \/ (\E v \in Versions : documentSaved(v)) /\ UNCHANGED <<squashVars, counterVars, lastCall, fileVars, libVars>>
  \/ saveConfirm /\ UNCHANGED <<squashVars, counterVars, lastCall, fileVars, libVars>>
  \/ saveCancel /\ UNCHANGED <<squashVars, counterVars, lastCall, fileVars, libVars>>
  \/ (\E v \in Versions : onDidCloseDocument(v)) /\ UNCHANGED <<squashVars, counterVars, lastCall, fileVars, libVars>>

Spec == Init /\ [][Next]_vars

\* workspace.js sendToKindle on a git-based story: the checkout of the
\* version's branch that precedes the export of its file
sendToKindle(v) ==
  /\ Deliver
  /\ \E carry \in BOOLEAN :
       LET switch == getCurrentBranch(repo) # BranchOf(v)
       IN  /\ repo' = IF switch THEN checkoutBranch(repo, BranchOf(v), carry) ELSE repo
           /\ ev' = [StartEv("kindle", v, repo) EXCEPT !.checkout = switch]
  /\ UNCHANGED <<openDocs, unsaved, activityEntries, dbActivity, pending, sumNet>>

\* the "send to Kindle" command of a version node reaches sendToKindle; the
\* commands registered in extension.js (62-71) do not include it, so this
\* delivery follows the documented command
kindleRequested(v) == sendToKindle(v)

\* the editor handlers together with the send-to-Kindle command
KindleNext ==
  \/ Next
  \/ (\E v \in Versions : kindleRequested(v))
       /\ UNCHANGED <<squashVars, counterVars, lastCall, fileVars, libVars>>

KindleSpec == Init /\ [][KindleNext]_vars

\* ------------------------------------------- handlers, any versioning mode

\* a test that takes every story for a git-based one
IsGitStoryAlways(mode) == TRUE

\* story.versioningMode === VersioningMode.GIT
IsGitStory(mode) == mode = "git"

\* workspace.js openVersionCommand on a story of the given mode, followed by
\* onDidChangeEditor of the document it shows
openVersion(v) ==
  IF IsGitStory(versioningMode) THEN openVersionCommand(v)
  ELSE /\ Deliver
       /\ activityEntries' = initDocument(activityEntries,
                                          getDocumentWordCount(repo, unsaved, v))
       /\ ev' = [NoEv EXCEPT !.op = "open", !.v = v]
       /\ openDocs' = openDocs \cup {v}
       /\ UNCHANGED <<repo, dbActivity, sumNet, unsaved, pending>>

\* the user saves the document of v: onWillSaveDocument, the file is
\* written, then onDidSaveTextDocument on a story of the given mode
didSave(v) ==
  IF IsGitStory(versioningMode) THEN onDidSaveTextDocument(v)
  ELSE /\ v \in openDocs
       /\ Deliver
       /\ dbActivity' = IF v \notin ExcludedNames
                          THEN saveStoryActivity(activityEntries, dbActivity)
                        ELSE dbActivity
       /\ repo' = [repo EXCEPT !.work = DocContent(repo, unsaved, v)]
       /\ ev' = [NoEv EXCEPT !.op = "save", !.v = v]
       /\ unsaved' = [unsaved EXCEPT ![v] = {}]
       /\ UNCHANGED <<openDocs, activityEntries, sumNet, pending>>

\* the document of v is closed: onDidCloseDocument on a story of the given
\* mode
didClose(v) ==
  IF IsGitStory(versioningMode) THEN onDidCloseDocument(v)
  ELSE /\ v \in openDocs
       /\ Deliver
       /\ ev' = [NoEv EXCEPT !.op = "close", !.v = v]
       /\ openDocs' = openDocs \ {v}
       /\ unsaved' = [unsaved EXCEPT ![v] = {}]
       /\ UNCHANGED <<repo, activityEntries, dbActivity, sumNet, pending>>

\* the editor's "document saved" event reaches the save handler of a story
\* of any mode (see documentSaved)
storyDocumentSaved(v) == didSave(v)

\* the editor on the file-mode story
ModeNext ==
  \/ (\E v \in Versions : openVersion(v))
       /\ UNCHANGED <<squashVars, counterVars, lastCall, fileVars, libVars>>
  \/ (\E v \in Versions, l \in Lines : onDidDocumentChange(v, l))
       /\ UNCHANGED <<squashVars, counterVars, lastCall, fileVars, libVars>>
  \/ (\E v \in Versions : storyDocumentSaved(v))
       /\ UNCHANGED <<squashVars, counterVars, lastCall, fileVars, libVars>>
  \/ (\E v \in Versions : didClose(v))
       /\ UNCHANGED <<squashVars, counterVars, lastCall, fileVars, libVars>>

ModeSpec == Init /\ [][ModeNext]_vars

\* the editor is closed and opened again on the same day: nothing is open,
\* and the constructor of ActivityManager runs initSession
activityManagerCreated ==
  /\ Deliver
  /\ NumUnsaved = 0
  /\ activityEntries' = initSession(dbActivity)
  /\ openDocs' = {}
  /\ ev' = [NoEv EXCEPT !.op = "restart"]
  /\ UNCHANGED <<repo, unsaved, dbActivity, pending, sumNet>>

\* the editor on the file-mode story, across restarts
SessionNext ==
  \/ ModeNext
  \/ activityManagerCreated
       /\ UNCHANGED <<squashVars, counterVars, lastCall, fileVars, libVars>>

SessionSpec == Init /\ [][SessionNext]_vars

\* ------------------------------------------------------------- squashing

\* the editor writes the saved document: the working tree takes content t
FileSaved(t) ==
  /\ t # gitWork
  /\ gitWork' = t
  /\ UNCHANGED <<gitLog, gitIndex, squashPrompt, message, failed, entryCount>>

\* onDidSaveTextDocument stages the saved document (stageChanges)
Staged ==
  /\ gitIndex # gitWork
  /\ gitIndex' = gitWork
  /\ UNCHANGED <<gitLog, gitWork, squashPrompt, message, failed, entryCount>>

\* a handler commits what is staged (commitStaged on save, close or switch)
Committed ==
  /\ Len(gitLog) < MaxLog
  /\ gitIndex # HeadTree(gitLog)
  /\ gitLog' = Append(gitLog, Commit(gitIndex, TRUE))
  /\ UNCHANGED <<gitIndex, gitWork, squashPrompt, message, failed, entryCount>>

\* local midnight passes: no commit of the history is of today any more
Midnight ==
  /\ TodayCommits(gitLog) # {}
  /\ gitLog' = [i \in 1..Len(gitLog) |-> Commit(gitLog[i].tree, FALSE)]
  /\ UNCHANGED <<gitIndex, gitWork, squashPrompt, message, failed, entryCount>>

\* WorkspaceManager.squashTodayCommitsCommand up to its prompt
squashTodayCommitsCommand ==
  /\ ~squashPrompt.active
  /\ \E ok \in BOOLEAN :
       LET commitCount == getTodayCommitCount(gitLog, ok)
       IN  IF commitCount <= 1
             THEN /\ message' = "info"
                  /\ UNCHANGED squashPrompt
           ELSE /\ squashPrompt' = [active |-> TRUE, kind |-> "command",
                                     count |-> commitCount]
                /\ message' = "none"
  /\ failed' = "none"
  /\ UNCHANGED <<gitLog, gitIndex, gitWork, entryCount>>

\* WorkspaceManager.checkSquashOnClose up to its prompt
checkSquashOnClose ==
  /\ ~squashPrompt.active
  /\ \E ok \in BOOLEAN :
       LET commitCount == getTodayCommitCount(gitLog, ok)
       IN  IF commitCount > 3
             THEN squashPrompt' = [active |-> TRUE, kind |-> "close",
                                   count |-> commitCount]
           ELSE UNCHANGED squashPrompt
  /\ message' = "none"
  /\ failed' = "none"
  /\ UNCHANGED <<gitLog, gitIndex, gitWork, entryCount>>

\* the user chooses 'Squash' (or 'Squash & Close'): the rest of the handler
squashConfirm ==
  /\ squashPrompt.active
  /\ \E failAt \in SquashSteps :
       LET r == squashTodayCommits(gitLog, gitIndex, failAt)
       IN  /\ gitLog' = r.log
           /\ message' = IF r.ret THEN "success" ELSE "failure"
           /\ failed' = r.failed
  /\ squashPrompt' = NoSquashPrompt
  /\ entryCount' = Cardinality(TodayCommits(gitLog))
  /\ UNCHANGED <<gitIndex, gitWork>>

\* the user chooses 'Cancel' (or 'Close Without Squashing')
squashDismiss ==
  /\ squashPrompt.active
  /\ squashPrompt' = NoSquashPrompt
  /\ message' = "none"
  /\ failed' = "none"
  /\ UNCHANGED <<gitLog, gitIndex, gitWork, entryCount>>

\* the status bar command and the close of the editor reach the handlers
squashRequested == squashTodayCommitsCommand
closeRequested == checkSquashOnClose

SquashNext ==
  \/ (\E t \in SquashTrees : FileSaved(t)) /\ UNCHANGED <<editorVars, counterVars, lastCall, fileVars, libVars>>
  \/ Staged /\ UNCHANGED <<editorVars, counterVars, lastCall, fileVars, libVars>>
  \/ Committed /\ UNCHANGED <<editorVars, counterVars, lastCall, fileVars, libVars>>
  \/ Midnight /\ UNCHANGED <<editorVars, counterVars, lastCall, fileVars, libVars>>
  \/ squashRequested /\ UNCHANGED <<editorVars, counterVars, lastCall, fileVars, libVars>>
  \/ closeRequested /\ UNCHANGED <<editorVars, counterVars, lastCall, fileVars, libVars>>
  \/ squashConfirm /\ UNCHANGED <<editorVars, counterVars, lastCall, fileVars, libVars>>
  \/ squashDismiss /\ UNCHANGED <<editorVars, counterVars, lastCall, fileVars, libVars>>

SquashSpec == Init /\ [][SquashNext]_vars

\* ------------------------------------------------- commitStaged, directly

\* the repository of the squash scenarios as the repository commands see it
RepoOf(log, index, work) ==
  [cur |-> "draft", tree |-> [b \in Branches |-> HeadTree(log)],
   ncommits |-> [b \in Branches |-> Len(log)], index |-> index, work |-> work]

\* commitStaged(directory) is called
CommitStagedCalled ==
  /\ lastCall.row < MaxCalls
  /\ \E toolOk \in BOOLEAN :
       LET c == commitStaged(RepoOf(gitLog, gitIndex, gitWork), toolOk)
           n == c.repo.ncommits[c.repo.cur]
       IN  /\ n <= MaxLog
           /\ gitLog' = IF n > Len(gitLog)
                           THEN Append(gitLog, Commit(c.repo.tree[c.repo.cur], TRUE))
                         ELSE gitLog
           /\ gitIndex' = c.repo.index
           /\ gitWork' = c.repo.work
           /\ lastCall' = [row |-> lastCall.row + 1, ret |-> c.ret, created |-> c.created]
  /\ UNCHANGED <<squashPrompt, message, failed, entryCount>>

CommitNext ==
  \/ (\E t \in SquashTrees : FileSaved(t))
       /\ lastCall' = NoCall /\ UNCHANGED <<editorVars, counterVars, fileVars, libVars>>
  \/ Staged /\ lastCall' = NoCall /\ UNCHANGED <<editorVars, counterVars, fileVars, libVars>>
  \/ CommitStagedCalled /\ UNCHANGED <<editorVars, counterVars, fileVars, libVars>>

CommitSpec == Init /\ [][CommitNext]_vars

\* ------------------------------------------ file-mode story and migration

\* Manager.createNewVersion(storyId, versionName) of a file-mode story
createNewVersion(versionName) ==
  LET normalizedVersionName == normalizeFilename(versionName)
      ins == insertVersion(versions, storyVersions, versionName)
  IN  /\ versioningMode = "file"
      /\ Len(versions) < MaxVersions
      /\ IF existsSync(files, normalizedVersionName)
            THEN /\ thrown' = [op |-> "createNewVersion", name |-> versionName,
                                error |-> "VersionExistsError"]
                 /\ UNCHANGED <<versions, storyVersions, files>>
          ELSE /\ versions' = ins.versions
               /\ storyVersions' = ins.storyVersions
               /\ IF ParentDirExists(normalizedVersionName)
                     THEN /\ files' = files \cup {normalizedVersionName}
                          /\ thrown' = [op |-> "createNewVersion", name |-> versionName,
                                         error |-> "none"]
                   ELSE /\ files' = files
                        /\ thrown' = [op |-> "createNewVersion", name |-> versionName,
                                       error |-> "ENOENT"]
      /\ UNCHANGED <<versioningMode, written, storyRepo>>

\* the user writes text into the file of a version and saves it
writeVersionFile(name) ==
  /\ versioningMode = "file"
  /\ name \in files \ written
  /\ written' = written \cup {name}
  /\ thrown' = [op |-> "write", name |-> name, error |-> "none"]
  /\ UNCHANGED <<versions, storyVersions, versioningMode, files, storyRepo>>

\* Manager.editVersionName(versionObj, newName, renameFiles) for the i-th
\* version record, with renameFiles = true as editVersionNameCommand calls it
editVersionName(i, newName) ==
  LET versionObj == versions[i]
      oldPath == normalizeFilename(versionObj.name)
      newPath == normalizeFilename(newName)
  IN  /\ versioningMode = "file"
      /\ IF existsSync(files, newPath)
            THEN /\ thrown' = [op |-> "editVersionName", name |-> newName,
                                error |-> "VersionExistsError"]
                 /\ UNCHANGED <<versions, files, written>>
          ELSE /\ versions' = [versions EXCEPT ![i].name = newName]
               /\ IF existsSync(files, oldPath) /\ ParentDirExists(newPath)
                     THEN /\ files' = (files \ {oldPath}) \cup {newPath}
                          /\ written' = IF oldPath \in written
                                           THEN (written \ {oldPath}) \cup {newPath}
                                         ELSE written \ {newPath}
                          /\ thrown' = [op |-> "editVersionName", name |-> newName,
                                         error |-> "none"]
                   ELSE /\ thrown' = [op |-> "editVersionName", name |-> newName,
                                       error |-> "ENOENT"]
                        /\ UNCHANGED <<files, written>>
      /\ UNCHANGED <<storyVersions, versioningMode, storyRepo>>

\* Manager.loadVersionFromPath(documentPath) for <story>/<fileVersionName>.md:
\* the last version of the story whose normalized name is the file's name
NoVersion == [id |-> 0, name |-> <<>>, branch |-> <<>>]

loadVersionFromPath(vs, fileVersionName) ==
  LET matching == {k \in 1..Len(vs) : normalizeFilename(vs[k].name) = fileVersionName}
  IN  IF matching = {} THEN NoVersion
      ELSE vs[CHOOSE k \in matching : \A m \in matching : m <= k]

\* deleteVersion that removes the record and leaves the story's list alone
deleteVersionRecordOnly(vs, sv, versionId) ==
  [versions |-> SelectSeq(vs, LAMBDA v : v.id # versionId), storyVersions |-> sv]

\* BabelDb.deleteVersion(storyId, versionId) on the story of the model
deleteVersion(vs, sv, versionId) ==
  LET index == {k \in 1..Len(sv) : sv[k] = versionId}
      first == CHOOSE k \in index : \A m \in index : k <= m
  IN  [versions |-> SelectSeq(vs, LAMBDA v : v.id # versionId),
       storyVersions |-> IF index = {} THEN sv ELSE RemoveAt(sv, first)]

\* Manager.removeVersion(storyId, versionObj, removeFiles) for the i-th
\* version record
removeVersion(i, removeFiles) ==
  LET versionObj == versions[i]
      versionPath == normalizeFilename(versionObj.name)
      del == deleteVersion(versions, storyVersions, versionObj.id)
  IN  /\ versioningMode = "file"
      /\ versions' = del.versions
      /\ storyVersions' = del.storyVersions
      /\ IF existsSync(files, versionPath)
            THEN \* unlinkSync, or renameSync to <name>.md.<timestamp>.deleted,
                 \* which is no file <name>.md of any version
                 /\ files' = files \ {versionPath}
                 /\ written' = written \ {versionPath}
                 /\ thrown' = [op |-> "removeVersion", name |-> versionObj.name,
                                error |-> "none"]
          ELSE /\ thrown' = [op |-> "removeVersion", name |-> versionObj.name,
                              error |-> "ENOENT"]
               /\ UNCHANGED <<files, written>>
      /\ UNCHANGED <<versioningMode, storyRepo>>

\* the branch `git init` leaves HEAD on
DefaultBranch == <<"master">>

\* the version files a commit holds: their names and which of them hold text
Snapshot(fs, wr) == [files |-> fs, written |-> wr \cap fs]

\* git-utils.js initGitRepo(directory, initialBranch): git init, checkout -b,
\* then .gitignore is written and committed. When `git checkout -b` fails the
\* directory is a repository whose default branch has no commit yet.
initGitRepo(initialBranch) ==
  IF ValidBranchName(initialBranch)
    THEN [isRepo |-> TRUE, branches |-> {initialBranch}, head |-> initialBranch,
          trees |-> [b \in {initialBranch} |-> Snapshot({}, {})]]
  ELSE [isRepo |-> TRUE, branches |-> {}, head |-> DefaultBranch, trees |-> <<>>]

\* git-utils.js createBranch(directory, branchName): git checkout -b; the new
\* branch starts at the commit of the current one. The repository is left as
\* it was when the command fails.
createBranch(r, branchName) ==
  IF ValidBranchName(branchName) /\ branchName \notin r.branches
    THEN IF r.head \in r.branches
           THEN [r EXCEPT !.branches = @ \cup {branchName}, !.head = branchName,
                          !.trees = [b \in r.branches \cup {branchName} |->
                                       IF b = branchName THEN r.trees[r.head]
                                       ELSE r.trees[b]]]
         ELSE [r EXCEPT !.head = branchName]
  ELSE r

\* git-utils.js commit(directory, message): nothing when `git status` shows
\* no change, else git add -A and git commit of the whole directory on the
\* branch that is checked out
commit(r, fs, wr) ==
  LET clean == IF r.head \in r.branches THEN r.trees[r.head] = Snapshot(fs, wr)
               ELSE fs = {}
  IN  IF clean THEN r
      ELSE [r EXCEPT !.branches = @ \cup {r.head},
                     !.trees = [b \in r.branches \cup {r.head} |->
                                  IF b = r.head THEN Snapshot(fs, wr) ELSE r.trees[b]]]

\* MigrationScript.migrateVersion for the i-th version: the state it leaves
migrateVersion(st, i) ==
  LET version == st.versions[i]
      isFirst == i = 1
      normalizedName == normalizeFilename(version.name)
      \* content: the text of the version file, '' when there is no file
      hasText == existsSync(st.files, normalizedName) /\ normalizedName \in st.written
      r1 == IF isFirst THEN st.repo ELSE createBranch(st.repo, normalizedName)
      renameFails == isFirst /\ normalizedName # Draft /\ ~existsSync(st.files, Draft)
      writeFails == ~ParentDirExists(normalizedName)
      files1 == IF isFirst /\ normalizedName # Draft
                  THEN (st.files \ {Draft}) \cup {normalizedName}
                ELSE st.files \cup {normalizedName}
      written1 == IF isFirst /\ normalizedName # Draft
                    THEN (st.written \ {Draft, normalizedName})
                           \cup (IF hasText THEN {normalizedName} ELSE {})
                  ELSE st.written
  IN  IF renameFails \/ writeFails
        THEN [st EXCEPT !.repo = r1]
      ELSE [st EXCEPT !.repo = commit(r1, files1, written1),
                      !.files = files1, !.written = written1,
                      !.versions[i].branch = normalizedName]

RECURSIVE migrateVersions(_, _)
migrateVersions(st, i) ==
  IF i > Len(st.versions) THEN st ELSE migrateVersions(migrateVersion(st, i), i + 1)

\* MigrationScript.migrateStory(story)
migrateStory ==
  /\ versioningMode = "file"
  /\ ~storyRepo.isRepo
  /\ Len(versions) > 0
  /\ LET firstBranch == normalizeFilename(versions[1].name)
         st == migrateVersions([versions |-> versions, files |-> files,
                                written |-> written,
                                repo |-> initGitRepo(firstBranch)], 1)
     IN  /\ versions' = st.versions
         /\ files' = st.files
         /\ written' = st.written
         /\ storyRepo' = st.repo
  /\ versioningMode' = "git"
  /\ thrown' = [op |-> "migrateStory", name |-> <<>>, error |-> "none"]
  /\ UNCHANGED storyVersions

\* one more call on the story; nothing else of the model moves
FileOp ==
  /\ fileOps < MaxFileOps
  /\ fileOps' = fileOps + 1
  /\ UNCHANGED <<editorVars, squashVars, counterVars, lastCall, libVars>>

FileNext ==
  \/ (\E name \in VersionNames : createNewVersion(name))
       /\ FileOp
  \/ (\E name \in files : writeVersionFile(name))
       /\ FileOp
  \/ (\E i \in 1..Len(versions), newName \in VersionNames : editVersionName(i, newName))
       /\ FileOp
  \/ (\E i \in 1..Len(versions), removeFiles \in BOOLEAN : removeVersion(i, removeFiles))
       /\ FileOp
  \/ migrateStory /\ FileOp

FileSpec == Init /\ [][FileNext]_vars

\* ------------------------------------------------------- database calls

\* what every database call leaves alone
DbFrame ==
  UNCHANGED <<editorVars, squashVars, counterVars, lastCall, fileVars, branchVars,
              messageVars, extraVars>>

\* BabelDb.insertStory of a story without versions
InsertStoryCalled(storyId) ==
  /\ storyId \notin DOMAIN dbStories
  /\ dbStories' = [x \in DOMAIN dbStories \cup {storyId} |->
                     IF x = storyId THEN <<>> ELSE dbStories[x]]
  /\ dbThrown' = [op |-> "insertStory", storyId |-> storyId, error |-> "none"]
  /\ UNCHANGED dbVersions
  /\ DbFrame

\* Manager.createNewVersion calls insertVersion(storyId, {storyId, ...})
InsertVersionCalled(storyId) ==
  LET res == dbInsertVersion(dbStories, dbVersions, storyId, [storyId |-> storyId])
  IN  /\ Cardinality(dbVersions) < MaxDbVersions
      /\ dbStories' = res.stories
      /\ dbVersions' = res.versions
      /\ dbThrown' = [op |-> "insertVersion", storyId |-> storyId, error |-> res.error]
      /\ DbFrame

\* Manager.removeVersion and the cleanup script call deleteVersion(storyId,
\* versionId) with the id of a version of that story; the record may be gone
\* by the time of the call
DeleteVersionCalled(storyId, versionId) ==
  LET res == dbDeleteVersion(dbStories, dbVersions, storyId, versionId)
  IN  /\ \A v \in dbVersions : v.id = versionId => v.storyId = storyId
      /\ dbStories' = res.stories
      /\ dbVersions' = res.versions
      /\ dbThrown' = [op |-> "deleteVersion", storyId |-> storyId, error |-> res.error]
      /\ DbFrame

\* Manager.removeStory and the cleanup script call deleteStory(storyId)
DeleteStoryCalled(storyId) ==
  LET res == dbDeleteStory(dbStories, dbVersions, storyId)
  IN  /\ dbStories' = res.stories
      /\ dbVersions' = res.versions
      /\ dbThrown' = [op |-> "deleteStory", storyId |-> storyId, error |-> res.error]
      /\ DbFrame

DbNext ==
  \/ \E storyId \in StoryIds : InsertStoryCalled(storyId)
  \/ \E storyId \in StoryIds : InsertVersionCalled(storyId)
  \/ \E storyId \in StoryIds, versionId \in 1..(MaxDbVersions + 1) :
       DeleteVersionCalled(storyId, versionId)
  \/ \E storyId \in StoryIds : DeleteStoryCalled(storyId)

DbSpec == Init /\ [][DbNext]_vars

\* ---------------------------------------------- composing commit messages

\* a handler reads the word stats of the staged diff
StatsRead(a, d) ==
  /\ wordStats' = StatsOf(a, d)
  /\ commitMessage' = NoMessage
  /\ UNCHANGED <<editorVars, squashVars, counterVars, lastCall, fileVars, branchVars,
                 dbVars, extraVars>>

\* and composes the message of its commit
MessageComposed(trigger) ==
  /\ commitMessage' = [trigger |-> trigger,
                        text |-> composeCommitMessage(trigger, wordStats)]
  /\ UNCHANGED <<wordStats, editorVars, squashVars, counterVars, lastCall, fileVars,
                 branchVars, dbVars, extraVars>>

MessageNext ==
  \/ \E a, d \in 0..MaxWords : StatsRead(a, d)
  \/ \E trigger \in Triggers : MessageComposed(trigger)

MessageSpec == Init /\ [][MessageNext]_vars

\* ------------------------------------------------------ branch actions

\* git checkout -b <b>: a new branch at the commit of the current one
BranchCreated(b) ==
  /\ b \notin DOMAIN gitBranches.tips
  /\ gitBranches' = [tips |-> [x \in DOMAIN gitBranches.tips \cup {b} |->
                                 gitBranches.tips[gitBranches.current]],
                     current |-> b]
  /\ deleted' = NoDelete

\* git checkout <b>
BranchCheckedOut(b) ==
  /\ b \in DOMAIN gitBranches.tips
  /\ b # gitBranches.current
  /\ gitBranches' = [gitBranches EXCEPT !.current = b]
  /\ deleted' = NoDelete

\* git commit on the current branch
BranchCommitted ==
  LET all == UNION {gitBranches.tips[b] : b \in DOMAIN gitBranches.tips}
      fresh == Cardinality(all) + 1
  IN  /\ Cardinality(all) < MaxTips
      /\ gitBranches' = [gitBranches EXCEPT !.tips[gitBranches.current] = @ \cup {fresh}]
      /\ deleted' = NoDelete

\* a call of deleteBranch
DeleteBranchCalled(branchName, force, checkoutOk) ==
  LET res == deleteBranch(gitBranches, branchName, force, checkoutOk)
  IN  /\ gitBranches' = res.repo
      /\ deleted' = [name |-> branchName,
                      wasCurrent |-> gitBranches.current = branchName,
                      ret |-> res.ret]

BranchNext ==
  \/ (\E b \in BranchNames : BranchCreated(b))
       /\ UNCHANGED <<editorVars, squashVars, counterVars, lastCall, fileVars,
                      messageVars, dbVars, extraVars>>
  \/ (\E b \in BranchNames : BranchCheckedOut(b))
       /\ UNCHANGED <<editorVars, squashVars, counterVars, lastCall, fileVars,
                      messageVars, dbVars, extraVars>>
  \/ BranchCommitted
       /\ UNCHANGED <<editorVars, squashVars, counterVars, lastCall, fileVars,
                      messageVars, dbVars, extraVars>>
  \/ (\E b \in BranchNames, force \in BOOLEAN, checkoutOk \in BOOLEAN :
         DeleteBranchCalled(b, force, checkoutOk))
       /\ UNCHANGED <<editorVars, squashVars, counterVars, lastCall, fileVars,
                      messageVars, dbVars, extraVars>>

BranchSpec == Init /\ [][BranchNext]_vars

\* ------------------------------------------------------- counting words

\* getStagedWordCount is called on the staged diff
CountStagedWords ==
  /\ counted.fn = "none"
  /\ counted' = [fn |-> "getStagedWordCount"] @@ WordStatsOfDiff(diffText)
  /\ UNCHANGED <<diffText, editorVars, squashVars, lastCall, fileVars, libVars>>

\* countWordsInDiff is called on the diff (it returns the net words only)
CountNetWords ==
  /\ counted.fn = "none"
  /\ counted' = [NotCounted EXCEPT !.fn = "countWordsInDiff",
                                   !.netWords = NetWordsOfDiff(diffText)]
  /\ UNCHANGED <<diffText, editorVars, squashVars, lastCall, fileVars, libVars>>

CounterInit ==
  /\ EditorInit /\ SquashInit
  /\ diffText \in Texts(MaxDiffLen)
  /\ counted = NotCounted
  /\ lastCall = NoCall
  /\ FileInit /\ LibInit

CounterNext == CountStagedWords \/ CountNetWords

CounterSpec == CounterInit /\ [][CounterNext]_vars

\* ------------------------------------------------------ comment cleanup

\* a markdown document is saved: onWillSaveTextDocument runs
\* cleanupOrphanTags and the editor applies the edits it returns
OrphanTagsCleaned ==
  /\ cleanups < MaxCleanups
  /\ cleanups' = cleanups + 1
  /\ docText' = cleanupOrphanTags(docText)
  /\ UNCHANGED <<editorVars, squashVars, counterVars, lastCall, fileVars, branchVars,
                 messageVars, dbVars>>

CommentInit ==
  /\ EditorInit /\ SquashInit
  /\ diffText = <<>> /\ counted = NotCounted
  /\ lastCall = NoCall
  /\ FileInit /\ BranchInit /\ MessageInit /\ DbInit
  /\ docText \in CommentTexts(MaxTextLines)
  /\ cleanups = 0

CommentSpec == CommentInit /\ [][OrphanTagsCleaned]_vars

TypeOK ==
  /\ repo.cur \in Branches
  /\ repo.index \subseteq Lines /\ repo.work \subseteq Lines
  /\ openDocs \subseteq Versions
  /\ NumUnsaved <= MaxUnsaved

\* ------------------------------------------------------------------ claims

StagedClean == repo.index = repo.tree[repo.cur]

\* C1 (as claimed): switching away from a branch with staged changes creates
\* one commit on the branch being left before the checkout (unless the commit
\* tool fails), and afterwards the target branch is checked out with nothing
\* staged.
C1_SwitchCommitsThenChecksOut ==
  (ev.op = "open" /\ ev.checkout /\ ev.dirty0 /\ ev.ret)
    => (ev.created /\ repo.cur = BranchOf(ev.v) /\ StagedClean)

\* C2 (as claimed): closing a document while anything is staged creates a
\* commit whatever the staged diff contains (unless the commit tool fails),
\* so nothing is staged after a close.
C2_CloseFlushesAnythingStaged ==
  (ev.op = "close" /\ ev.dirty0 /\ ev.ret) => (ev.created /\ StagedClean)

\* the content staged by a save step: the document as written for a save
\* that goes on without a prompt, the working tree for a confirmed save
SavedContent ==
  IF ev'.op = "saveConfirm" THEN repo.work ELSE DocContent(repo, unsaved, ev'.v)

RepoHistory(r) == <<r.tree, r.ncommits>>

\* C3: a save compares the branch checked out at that moment with the branch
\* of the saved version; on a mismatch the handler stages and commits nothing
\* while it asks, nor when the user cancels; only a save on the matching
\* branch or a confirmed one changes the index or the history.
C3_MismatchGateOnSave ==
  [][ /\ ev'.op = "save" => repo.cur = BranchOf(ev'.v)
      /\ ev'.op = "savePrompt" =>
           /\ repo.cur # BranchOf(ev'.v)
           /\ pending'.active /\ pending'.branch = repo.cur
           /\ repo'.index = repo.index /\ RepoHistory(repo') = RepoHistory(repo)
      /\ ev'.op = "saveCancel" =>
           /\ repo'.index = repo.index /\ RepoHistory(repo') = RepoHistory(repo)
           /\ repo'.cur = repo.cur
      /\ ev'.op = "saveConfirm" => ev'.confirmed /\ pending.active
    ]_vars

\* C3 witness: a mismatched save was cancelled and the saved text is left
\* unstaged in the working tree
C3_Witness ==
  ev.op = "saveCancel" /\ ev.mismatch /\ repo.work # repo.index /\ ~ev.created

\* C4 (as claimed): a commit made by the save or close handler of a document
\* of version V lands on V's branch unless the user confirmed the other branch.
C4_NoSilentCommitOnOtherBranch ==
  (ev.op \in {"save", "saveConfirm", "close"} /\ ev.created)
    => (~ev.mismatch \/ ev.confirmed)

\* C5 (as claimed): a handler calls trackGitWords once, with the commit's net
\* words, when it created a commit and not at all when it created none
\* (stated for the versions whose words count as activity).
C5_TrackedOncePerCommit ==
  (ev.op \in {"save", "saveConfirm", "close", "open"} /\ ev.v \notin ExcludedNames)
    => /\ ev.tracks = (IF ev.created THEN 1 ELSE 0)
       /\ ev.created => ev.trackArg = ev.net

\* C6 (as claimed): the word count stored for the story and the day is the sum
\* of the net words of the commits made that day.
C6_StoredCountIsSumOfCommits ==
  dbActivity.present => dbActivity.wordCount = sumNet

\* C7 (as claimed): when commitStaged returns false the failure is shown to
\* the user, no words are recorded and no branch is checked out.
C7_FailedCommitReported ==
  (ev.called /\ ~ev.ret) => (ev.reported /\ ev.tracks = 0 /\ ~ev.checkout)

\* characters of the lines of content `to` that are not in `from` and that
\* show in the diff as a line starting with '+' but not with '+++'
AddedChars(from, to) ==
  SumOver({l \in to \ from :
             ~(Len(LineStart[l]) >= 2 /\ LineStart[l][1] = "+" /\ LineStart[l][2] = "+")},
          LineChars)

CommitMadeOnCurrent ==
  /\ repo'.ncommits = [repo.ncommits EXCEPT ![repo.cur] = @ + 1]
  /\ repo'.tree = [repo.tree EXCEPT ![repo.cur] = repo'.tree[repo.cur]]

C15_HandlersSerialized ==
  [][pending.active => (ev'.op \in {"saveConfirm", "saveCancel"} \/ repo' = repo)]_vars

\* ---------------------------------------------------------------- squash

\* the step of a squash handler that runs squashTodayCommits
SquashRuns == squashPrompt.active /\ message' \in {"success", "failure"}

\* the tree today's work started from: the parent of the first commit of
\* today, the empty tree when that commit is the root
BaseTree(log) ==
  IF FirstTodayCommit(log) = 1 THEN {} ELSE log[FirstTodayCommit(log) - 1].tree

NetWordsBetween(from, to) == countWordsInDiff(UnifiedDiff(from, to))

\* cumulative net words of the commits of today, commit by commit
RECURSIVE CumulativeNet(_, _)
CumulativeNet(log, i) ==
  IF i > Len(log) THEN 0
  ELSE NetWordsBetween(IF i = 1 THEN {} ELSE log[i - 1].tree, log[i].tree)
       + CumulativeNet(log, i + 1)

\* C11 (as claimed): a successful squash of k >= 2 commits of today leaves
\* exactly one commit of today, the same tree at HEAD as before, and a single
\* commit whose net words against its base are the cumulative net words of
\* the squashed commits.
C11_SquashKeepsContent ==
  [][(SquashRuns /\ Cardinality(TodayCommits(gitLog)) >= 2
        /\ message' = "success" /\ failed' = "none")
     => /\ Cardinality(TodayCommits(gitLog')) = 1
        /\ HeadTree(gitLog') = HeadTree(gitLog)
        /\ NetWordsBetween(BaseTree(gitLog), HeadTree(gitLog'))
             = CumulativeNet(gitLog, FirstTodayCommit(gitLog))]_vars

\* C12 (as claimed): when the first commit of today is the root commit, the
\* squash of k >= 2 commits succeeds with the empty tree as base and leaves
\* exactly one commit of today.
C12_SquashOverRoot ==
  [][(SquashRuns /\ Cardinality(TodayCommits(gitLog)) >= 2
        /\ FirstTodayCommit(gitLog) = 1 /\ failed' \in {"none", "parent"})
     => /\ message' = "success"
        /\ Cardinality(TodayCommits(gitLog')) = 1]_vars

\* C13 (as claimed): when a git command of the squash fails the handler
\* shows a failure and nothing staged is dropped; when the failing command
\* is the commit after the soft reset, the branch is at the base.
C13_FailedSquashSurfaced ==
  [][(SquashRuns /\ Cardinality(TodayCommits(gitLog)) >= 2 /\ failed' # "none")
     => /\ message' = "failure"
        /\ gitIndex' = gitIndex /\ gitWork' = gitWork
        /\ failed' = "commit" =>
             gitLog' = SubSeq(gitLog, 1, FirstTodayCommit(gitLog) - 1)
        /\ failed' # "commit" => gitLog' = gitLog]_vars

\* C14: with at most one commit since midnight squashTodayCommits returns
\* success and leaves the history, HEAD, the index and the working tree as
\* they were.
C14_SquashNoOp ==
  [][(SquashRuns /\ Cardinality(TodayCommits(gitLog)) <= 1)
     => /\ message' = "success"
        /\ UNCHANGED <<gitLog, gitIndex, gitWork>>]_vars

\* squashTodayCommits was entered with at most one commit of today (the
\* prompt was opened with more, midnight passed before the answer)
C14_Witness == message = "success" /\ entryCount \in {0, 1}

\* --------------------------------------------------------- word counters

\* the lines of the diff text (a text ending with a newline has no line
\* after it)
DiffTextLines == SelectSeq(SplitLines(diffText), LAMBDA l : l # <<>>)

\* number of white-space separated tokens of a text: the positions where a
\* token starts
TokenCount(text) ==
  Cardinality({i \in 1..Len(text) :
                 /\ text[i] \notin WhiteSpace
                 /\ (i = 1 \/ text[i - 1] \in WhiteSpace)})

HeaderLine(l) ==
  \/ Len(l) >= 3 /\ l[1] = "+" /\ l[2] = "+" /\ l[3] = "+"
  \/ Len(l) >= 3 /\ l[1] = "-" /\ l[2] = "-" /\ l[3] = "-"

\* the lines that count: those with the sign, headers included or not
Counts(l, sign, withHeaders) == Head(l) = sign /\ (withHeaders \/ ~HeaderLine(l))

RECURSIVE SumTokens(_, _, _, _)
SumTokens(lines, i, sign, withHeaders) ==
  IF i > Len(lines) THEN 0
  ELSE (IF Counts(lines[i], sign, withHeaders) THEN TokenCount(Tail(lines[i])) ELSE 0)
       + SumTokens(lines, i + 1, sign, withHeaders)

\* every line of the diff is '+' followed by some text
OnlyAddedLines ==
  /\ DiffTextLines # <<>>
  /\ \A i \in 1..Len(DiffTextLines) : Head(DiffTextLines[i]) = "+"

\* C16 (as claimed): for a diff of added lines only, with n tokens in total
\* after the '+' signs, the counter returns wordsAdded = n, wordsDeleted = 0
\* and netWords = n.
C16_AddedLinesCounted ==
  (counted.fn # "none" /\ OnlyAddedLines)
    => LET n == SumTokens(DiffTextLines, 1, "+", TRUE)
       IN  /\ counted.netWords = n
           /\ counted.fn = "getStagedWordCount" =>
                (counted.wordsAdded = n /\ counted.wordsDeleted = 0)

C19_BranchVersionBijection ==
  versioningMode = "git"
    => /\ \A i \in 1..Len(versions) :
            /\ versions[i].branch \in storyRepo.branches
            /\ versions[i].branch = normalizeFilename(versions[i].name)
       /\ \A i, j \in 1..Len(versions) :
            versions[i].branch = versions[j].branch => i = j

\* C20 (as claimed): createNewVersion fails with VersionAlreadyExists when
\* the file of the normalized name exists, and then changes neither the
\* database nor the directory; otherwise it adds one version record, appends
\* its id to the story's versions and creates one empty file of that name.
C20_CreateVersionInFileMode ==
  [][(thrown'.op = "createNewVersion")
     => LET normalized == normalizeFilename(thrown'.name)
        IN  IF normalized \in files
              THEN /\ thrown'.error = "VersionExistsError"
                   /\ UNCHANGED <<versions, storyVersions, files, written>>
            ELSE /\ thrown'.error = "none"
                 /\ Len(versions') = Len(versions) + 1
                 /\ SubSeq(versions', 1, Len(versions)) = versions
                 /\ storyVersions' = Append(storyVersions, versions'[Len(versions')].id)
                 /\ files' = files \cup {normalized}
                 /\ normalized \notin written']_vars

\* the versions whose record names a file of the directory
HasFile(vs, fs, i) == existsSync(fs, normalizeFilename(vs[i].name))

\* C21 (as claimed): a rename is all-or-nothing. A rename to a name whose
\* file exists fails and changes neither records nor files; a rename that
\* fails leaves every version that had its file with a record name that
\* still names its file; a rename that succeeds leaves the old file absent,
\* the new file present and the new name in the record.
C21_RenameAllOrNothing ==
  [][\A i \in 1..Len(versions), newName \in VersionNames :
       editVersionName(i, newName)
         => LET old == normalizeFilename(versions[i].name)
                new == normalizeFilename(newName)
            IN  /\ new \in files
                      => /\ thrown'.error = "VersionExistsError"
                         /\ UNCHANGED <<versions, storyVersions, files, written>>
                /\ thrown'.error # "none"
                      => \A k \in 1..Len(versions) :
                           HasFile(versions, files, k) => HasFile(versions', files', k)
                /\ thrown'.error = "none"
                      => /\ old \notin files' /\ new \in files'
                         /\ versions'[i].name = newName]_vars

\* C22: removeVersion removes the record and its id from the story's list;
\* afterwards no file of the normalized name exists, the other records and
\* the files of the other versions are as before.
C22_RemoveVersion ==
  [][\A i \in 1..Len(versions), removeFiles \in BOOLEAN :
       removeVersion(i, removeFiles)
         => LET id == versions[i].id
                path == normalizeFilename(versions[i].name)
            IN  /\ versions' = RemoveAt(versions, i)
                /\ \A k \in 1..Len(storyVersions') : storyVersions'[k] # id
                /\ Len(storyVersions') = Len(storyVersions) - 1
                /\ ~existsSync(files', path)
                /\ files' \ {path} = files \ {path}
                /\ written' \ {path} = written \ {path}]_vars

\* a version that had its file and text, next to another version, was removed
C22_Witness ==
  /\ thrown.op = "removeVersion" /\ thrown.error = "none"
  /\ Len(versions) >= 1
  /\ written # {}
  /\ normalizeFilename(thrown.name) \notin files

\* C28 (as claimed): in file mode every version record has its file, no two
\* records map to the same file, and loadVersionFromPath on the path of a
\* version returns that version.
C28_RecordsAndFilesOneToOne ==
  versioningMode = "file"
    => /\ \A i \in 1..Len(versions) :
            /\ HasFile(versions, files, i)
            /\ loadVersionFromPath(versions, normalizeFilename(versions[i].name))
                 = versions[i]
       /\ \A i, j \in 1..Len(versions) :
            normalizeFilename(versions[i].name) = normalizeFilename(versions[j].name)
              => i = j

\* C29 (as claimed): migration preserves the content of every version: the
\* file of each version that had a file is, after the migration, in the tree
\* of the branch its record names, with the text it held before.
C29_MigrationPreservesContent ==
  [][(thrown'.op = "migrateStory" /\ versioningMode = "file")
     => \A i \in 1..Len(versions) :
          LET name == normalizeFilename(versions[i].name)
              branch == versions'[i].branch
          IN  existsSync(files, name)
                => /\ branch \in storyRepo'.branches
                   /\ name \in storyRepo'.trees[branch].files
                   /\ name \in written <=> name \in storyRepo'.trees[branch].written]_vars

\* C23: deleteBranch of the checked-out branch switches to another branch
\* before deleting; when it returns true the branch is gone, HEAD is on one
\* of the remaining branches and these are as they were; for the only branch
\* it returns false and changes nothing.
C23_DeleteBranch ==
  [][\A branchName \in BranchNames, force \in BOOLEAN, checkoutOk \in BOOLEAN :
       DeleteBranchCalled(branchName, force, checkoutOk)
         => LET before == gitBranches.tips
                after == gitBranches'.tips
            IN  /\ deleted'.ret
                      => /\ DOMAIN after = DOMAIN before \ {branchName}
                         /\ branchName \in DOMAIN before
                         /\ gitBranches'.current \in DOMAIN after
                         /\ \A b \in DOMAIN after : after[b] = before[b]
                         /\ deleted'.wasCurrent
                               => gitBranches'.current = getAllBranches(gitBranches')[1]
                /\ (DOMAIN before = {branchName} /\ gitBranches.current = branchName)
                      => ~deleted'.ret /\ gitBranches' = gitBranches]_vars

\* the checked-out branch was deleted while another branch was left
C23_Witness ==
  /\ deleted.ret /\ deleted.wasCurrent
  /\ deleted.name \notin DOMAIN gitBranches.tips
  /\ Cardinality(DOMAIN gitBranches.tips) >= 1

\* C24: on a story that is not git-based no handler changes the branch that
\* is checked out, the index or any commit, and the open, save and close
\* handlers call neither commitStaged nor checkoutBranch nor trackGitWords.
C24_FileModeNoVcs ==
  [][versioningMode # "git"
     => /\ repo'.cur = repo.cur
        /\ repo'.index = repo.index
        /\ repo'.tree = repo.tree
        /\ repo'.ncommits = repo.ncommits
        /\ sumNet' = sumNet
        /\ ~ev'.called /\ ~ev'.created /\ ~ev'.checkout /\ ev'.tracks = 0]_vars

\* text of more than the commit threshold was saved in the file-mode story
\* and its document closed
C24_Witness ==
  /\ versioningMode # "git"
  /\ ev.op = "close"
  /\ SumOver(repo.work, LineChars) >= COMMIT_THRESHOLD_CHARS
  /\ repo.index = {}

\* the absolute value
Abs(n) == IF n < 0 THEN 0 - n ELSE n

\* C25: the commit message is the generic message of the trigger when the
\* net is 0; else '<trigger>: +a words' when nothing was deleted,
\* '<trigger>: -d words' when nothing was added, and
\* '<trigger>: +a/-d words (net: +n)' or '(net: -n)' when both are nonzero.
C25_CommitMessage ==
  commitMessage.trigger # ""
    => LET t == commitMessage.trigger
           a == wordStats.wordsAdded
           d == wordStats.wordsDeleted
           n == a - d
       IN  /\ n = 0 => commitMessage.text = t
           /\ (n # 0 /\ d = 0)
                 => commitMessage.text = t \o ": +" \o ToString(a) \o " words"
           /\ (n # 0 /\ a = 0)
                 => commitMessage.text = t \o ": -" \o ToString(d) \o " words"
           /\ (n > 0 /\ a # 0 /\ d # 0)
                 => commitMessage.text = t \o ": +" \o ToString(a) \o "/-" \o ToString(d)
                                           \o " words (net: +" \o ToString(Abs(n)) \o ")"
           /\ (n < 0 /\ a # 0 /\ d # 0)
                 => commitMessage.text = t \o ": +" \o ToString(a) \o "/-" \o ToString(d)
                                           \o " words (net: -" \o ToString(Abs(n)) \o ")"

\* a message was composed for additions and deletions with a positive net
C25_Witness ==
  /\ commitMessage.trigger = "Auto-save on close"
  /\ wordStats.wordsDeleted > 0
  /\ wordStats.netWords > 0
  /\ commitMessage.text # commitMessage.trigger

\* the ids of the version records whose storyId is the story
RecordsOf(storyId) == {v.id : v \in {w \in dbVersions : w.storyId = storyId}}

StartOfDayTree(log) == IF TodayCommits(log) = {} THEN HeadTree(log) ELSE BaseTree(log)

\* C30 (as claimed): getTodayNetWords is the net words between the story
\* text at the start of the day and the working tree; it is 0 when the
\* working tree holds the text of the start of the day, also in a
\* repository whose first commit was made today.
C30_TodayNetWords ==
  /\ getTodayNetWords(gitLog, gitWork)
       = NetWordsBetween(StartOfDayTree(gitLog), gitWork)
  /\ StartOfDayTree(gitLog) = gitWork => getTodayNetWords(gitLog, gitWork) = 0

\* ------------------------------------------- switching, prompts, backlog

\* the version whose branch is b is one whose words are not tracked
ExcludedBranch(b) == \E w \in Versions : BranchOf(w) = b /\ w \in ExcludedNames

\* C35 (as claimed): when the user confirms the prompt of a mismatched save,
\* the branch checked out is still the branch named in the prompt, and a
\* commit made by the confirmed save is a new commit of that branch,
\* whatever was handled while the prompt was open.
C35_ConfirmedCommitOnNamedBranch ==
  [][(pending.active /\ events' # events /\ ev'.op = "saveConfirm")
       => /\ getCurrentBranch(repo) = pending.branch
          /\ ev'.created
               => repo'.ncommits[pending.branch] = repo.ncommits[pending.branch] + 1]_vars

\* C36 (as claimed): no handler reports words to the activity tracker for a
\* commit of a revision or translation version: not the save (confirmed or
\* not) or the close of such a version's document, and not the switch away
\* from such a version's branch.
C36_ExcludedVersionsNeverTracked ==
  /\ (ev.op \in {"save", "saveConfirm", "close"} /\ ev.created
        /\ ev.v \in ExcludedNames)
       => ev.tracks = 0
  /\ (ev.op = "open" /\ ev.checkout /\ ev.created /\ ExcludedBranch(ev.cur0))
       => ev.tracks = 0

C38_OpenCurrentVersionIsNoOp ==
  [][(events' # events /\ ev'.op = "open"
        /\ repo.cur = BranchOf(ev'.v))
       => /\ repo' = repo
          /\ ~ev'.called /\ ~ev'.created /\ ~ev'.checkout
          /\ ev'.tracks = 0
          /\ dbActivity' = dbActivity /\ sumNet' = sumNet]_vars

\* C38 witness: the version of the checked-out branch was opened while
\* changes were staged, and they are still staged
C38_Witness ==
  /\ ev.op = "open" /\ ev.cur0 = BranchOf(ev.v) /\ ~ev.checkout
  /\ ev.dirty0 /\ ~StagedClean

\* C33 (as claimed): every step that checks out another branch of the
\* story repository has first committed what was staged on the branch it
\* leaves: the tip of the branch left holds what was staged, and nothing
\* staged is carried onto the branch checked out.
C33_CommitBeforeCheckout ==
  [][repo'.cur # repo.cur
       => /\ repo'.tree[repo.cur] = repo.index
          /\ repo'.index = repo'.tree[repo'.cur]]_vars

\* C34 (as claimed): when migrateStory leaves the story in git mode, its
\* directory is an initialized repository with its first branch and every
\* version record names an existing branch of it; a story whose repository
\* initialization or whose migration of some version failed is not put in
\* git mode.
C34_GitModeOnlyWhenConsistent ==
  [][(thrown'.op = "migrateStory" /\ versioningMode = "file" /\ versioningMode' = "git")
       => /\ storyRepo'.isRepo
          /\ storyRepo'.head \in storyRepo'.branches
          /\ \A i \in 1..Len(versions') :
               versions'[i].branch \in storyRepo'.branches]_vars

\* ------------------------------------------------------- orphan comments

\* the tags that occur somewhere else than at the head of their definition
BodyRefs(text) ==
  {tok \in TagTokens :
     \E i \in 1..Len(text) : \E j \in 1..Len(text[i]) :
       /\ text[i][j] = tok
       /\ ~(IsDefinition(text[i]) /\ j = Len(text[i]) - Len(TrimStart(text[i])) + 1)}

\* the lines before the first comment definition
BodyLines(text) ==
  LET defs == {i \in 1..Len(text) : IsDefinition(text[i])}
  IN  IF defs = {} THEN text
      ELSE SubSeq(text, 1, (CHOOSE i \in defs : \A k \in defs : i <= k) - 1)

\* C31 (as claimed): the cleanup removes every comment definition whose tag
\* has no inline reference in the body, keeps every definition whose tag is
\* referenced and every body line, and a second run changes nothing.
C31_OrphanCleanup ==
  [][cleanups' = cleanups + 1
       => /\ \A i \in 1..Len(docText') :
               IsDefinition(docText'[i])
                 => Head(Trim(docText'[i])) \in BodyRefs(docText)
          /\ \A i \in 1..Len(docText) :
               (IsDefinition(docText[i]) /\ Head(Trim(docText[i])) \in BodyRefs(docText))
                 => \E k \in 1..Len(docText') : docText'[k] = docText[i]
          /\ Len(docText') >= Len(BodyLines(docText))
          /\ SubSeq(docText', 1, Len(BodyLines(docText))) = BodyLines(docText)
          /\ removeOrphanTags(docText') = docText']_vars

\* ---------------------------------------------------- session word count

Max0(n) == IF n < 0 THEN 0 ELSE n

====
